---------------------------- MODULE Spec2Model ----------------------------
(***************************************************************************)
(* Grid World MDP solver of Rust/002_Grid_World/grid-world/src/world.rs:   *)
(* the World (board, exits), its setup calls, and the two solvers          *)
(* value_iteration and policy_iteration, one Bellman sweep per step.       *)
(*                                                                         *)
(* Numbers.  The code computes in f32.  The model writes an f32 as the     *)
(* pair <<m, e>> = m / 2^e and rounds the result of every operation to 24  *)
(* significant binary digits, ties to even: the model's arithmetic is the  *)
(* code's.                                                                 *)
(* f32::MIN, the start of the max_delta reduction, is the value F32_MIN,   *)
(* below every number the sweeps produce.                                  *)
(*                                                                         *)
(* Vectors are 1-based sequences: Rust's vec[i] is vec[i + 1] here.        *)
(* Option<T> is a sequence of length 0 (None) or 1 (Some).                 *)
(***************************************************************************)
EXTENDS Integers, Sequences, FiniteSets, TLC

VARIABLES
    width, height, board, exits,   \* World
    pc,                            \* where the caller is: setup, a solver loop, done
    calls,                         \* add_wall / add_exit calls made; setup over: MaxCalls
    query,                         \* the last call made on the World in setup
    discount, noise, epsilon,      \* arguments of the running solver
    values, q_values, policy,      \* locals of the running solver
    iterations, max_delta,         \* locals of the convergence loop
    old_values,                    \* the array the last sweep read, after the sweep
    rounds,                        \* rounds of policy_iteration's outer loop
    vi_values, pi_values           \* the value array each solver stopped at

world == <<width, height, board, exits>>
solver == <<discount, noise, epsilon, values, q_values, policy,
            iterations, max_delta, old_values, rounds>>
finals == <<vi_values, pi_values>>
vars == <<world, pc, calls, query, solver, finals>>

---------------------------------------------------------------------------
(* Bounds of the model.                                                    *)

MaxArea == 4
MaxCalls == 2
MaxIter == 20
MaxRounds == 4

\* Exit rewards the setup draws.
Rewards == {-2, -1, 1}

---------------------------------------------------------------------------
(* f32 arithmetic.  <<m, e>> is the f32 m / 2^e: e >= 0, m is odd unless   *)
(* e = 0, and |m| < 2^MANTISSA_DIGITS.  Each operation computes the exact  *)
(* result and rounds it to the nearest f32, ties to even, as IEEE 754 does.*)

Abs(n) == IF n < 0 THEN -n ELSE n

\* Significant binary digits of an f32.
MANTISSA_DIGITS == 24

\* m / 2^e in normal form.
RECURSIVE Norm(_, _)
Norm(m, e) == IF e > 0 /\ m % 2 = 0 THEN Norm(m \div 2, e - 1) ELSE <<m, e>>

Zero == <<0, 0>>
One == <<1, 0>>
F32(n) == <<n, 0>>

\* f32::MIN and f32::MAX: beyond every number the sweeps produce.
F32_MIN == <<-1, -1>>
F32_MAX == <<1, -1>>

\* The result of an operation outside the range the model computes in.
Inexact == <<0, -2>>

Max(a, b) == IF a < b THEN b ELSE a

\* Binary digits of n >= 0.
RECURSIVE BitLen(_)
BitLen(n) == IF n = 0 THEN 0 ELSE 1 + BitLen(n \div 2)

\* The mantissa m can be written k binary places finer.
Fits(m, k) == m = 0 \/ (k <= 30 /\ Abs(m) < 2^(30 - k))
\* m written k binary places finer.
Scaled(m, k) == IF m = 0 THEN 0 ELSE m * 2^k

\* The f32 nearest to m / 2^e, or, with sticky, to a number strictly between
\* m / 2^e and (m + 1) / 2^e; sticky comes only with more than
\* MANTISSA_DIGITS digits in m.
Round(m, e, sticky) ==
    IF Abs(m) < 2^MANTISSA_DIGITS THEN Norm(m, e)
    ELSE LET k == BitLen(Abs(m)) - MANTISSA_DIGITS
             q == m \div 2^k
             r == m % 2^k
             half == 2^(k - 1)
             up == r > half \/ (r = half /\ (sticky \/ q % 2 = 1))
         IN  IF e < k THEN Inexact
             ELSE Norm(IF up THEN q + 1 ELSE q, e - k)

\* x + y for x too coarse to be written to y's exponent: x is written as
\* fine as an integer allows, y is cut to that exponent.
AddFar(x, y) ==
    LET s == 30 - BitLen(Abs(x[1]))
        j == y[2] - x[2] - s
        cut == IF j > MANTISSA_DIGITS THEN (IF y[1] < 0 THEN -1 ELSE 0)
               ELSE y[1] \div 2^j
    IN  Round(x[1] * 2^s + cut, x[2] + s, TRUE)

Add(a, b) ==
    IF a = Inexact \/ b = Inexact THEN Inexact
    ELSE LET e == Max(a[2], b[2])
         IN  IF Fits(a[1], e - a[2]) /\ Fits(b[1], e - b[2])
             THEN Round(Scaled(a[1], e - a[2]) + Scaled(b[1], e - b[2]), e, FALSE)
             ELSE IF a[2] < b[2] THEN AddFar(a, b) ELSE AddFar(b, a)
Neg(a) == IF a = Inexact THEN Inexact ELSE <<-a[1], a[2]>>
Sub(a, b) == Add(a, Neg(b))

\* x * y / 2^e for mantissas x, y > 0 of more than 6 digits, negated when
\* negative: the product is computed in halves of 12 digits as
\* H * 2^24 + L, and its leading 30 digits are rounded, the rest being
\* sticky.
MulWide(x, y, e, negative) ==
    LET mid == (x \div 4096) * (y % 4096) + (x % 4096) * (y \div 4096)
        low == (x % 4096) * (y % 4096) + (mid % 4096) * 4096
        L == low % 2^24
        H == (x \div 4096) * (y \div 4096) + mid \div 4096 + low \div 2^24
        k == IF BitLen(H) <= 6 THEN 24 ELSE 30 - BitLen(H)
        m == H * 2^k + L \div 2^(24 - k)
        sticky == L % 2^(24 - k) # 0
    IN  IF e < 24 - k THEN Inexact
        ELSE Round(IF ~negative THEN m ELSE IF sticky THEN -m - 1 ELSE -m,
                   e - (24 - k), sticky)

Mul(a, b) ==
    IF a = Inexact \/ b = Inexact THEN Inexact
    ELSE IF a[1] = 0 \/ b[1] = 0 THEN Zero
    ELSE IF Abs(a[1]) < 64 \/ Abs(b[1]) < 64
         THEN Round(a[1] * b[1], a[2] + b[2], FALSE)
    ELSE MulWide(Abs(a[1]), Abs(b[1]), a[2] + b[2], (a[1] < 0) # (b[1] < 0))
\* a / k for a whole k that is a power of two.
RECURSIVE Div(_, _)
Div(a, k) == IF k = 1 \/ a = Inexact THEN a ELSE Div(Norm(a[1], a[2] + 1), k \div 2)

\* a < b, with F32_MIN below and F32_MAX above every number.  Of two numbers
\* too far apart to be written to one exponent, the coarser one decides.
Less(a, b) ==
    IF a = b \/ a = Inexact \/ b = Inexact THEN FALSE
    ELSE IF a = F32_MIN \/ b = F32_MAX THEN TRUE
    ELSE IF a = F32_MAX \/ b = F32_MIN THEN FALSE
    ELSE LET e == Max(a[2], b[2])
         IN  IF ~Fits(a[1], e - a[2]) THEN a[1] < 0
             ELSE IF ~Fits(b[1], e - b[2]) THEN b[1] > 0
             ELSE Scaled(a[1], e - a[2]) < Scaled(b[1], e - b[2])

\* f32::abs
AbsF(a) == IF a = F32_MIN THEN F32_MAX
           ELSE IF a = Inexact THEN Inexact
           ELSE <<Abs(a[1]), a[2]>>

\* A normal f32 the operations above computed.  A solver run is followed
\* while every value it writes is one.
Representable(a) == a # Inexact /\ a[2] <= 126
AllRepresentable(vec) == \A i \in 1..Len(vec) : Representable(vec[i])
AllRepresentableRows(rows) == \A i \in 1..Len(rows) : AllRepresentable(rows[i])

---------------------------------------------------------------------------
(* Direction, Action, State.                                               *)

Direction == {"Up", "Down", "Left", "Right"}
DIRECTIONS == <<"Up", "Right", "Down", "Left">>

None == <<"None">>
Exit == <<"Exit">>
Move(d) == <<"Move", d>>

State(x, y) == [x |-> x, y |-> y]

\* A Vec built cell by cell, as a sequence.
Vec(f) == f \o <<>>

\* Vec::get: Some(vec[i]) when i < vec.len(), else None.
Get(vec, i) == IF i < Len(vec) THEN <<vec[i + 1]>> ELSE <<>>

---------------------------------------------------------------------------
(* World.                                                                  *)

area == width * height

\* World::new: the board all open, no exits.
NewBoard(w, h) == [i \in 1..(w * h) |-> 0]
NewExits(w, h) == [i \in 1..(w * h) |-> <<>>]

\* add_wall on a world of width w with board b:
\* b.get_mut(y * w + x), set to 1 when it is Some.
wall_added(b, w, x, y) ==
    IF y * w + x < Len(b) THEN [b EXCEPT ![y * w + x + 1] = 1] ELSE b

\* add_exit on a world of width w with exits ex:
\* ex.get_mut(y * w + x), set to Some(reward) when it is Some.
exit_added(ex, w, x, y, r) ==
    IF y * w + x < Len(ex) THEN [ex EXCEPT ![y * w + x + 1] = <<r>>] ELSE ex

\* add_wall and add_exit on the World of the state.
add_wall_board(x, y) == wall_added(board, width, x, y)
add_exit_exits(x, y, r) == exit_added(exits, width, x, y, r)

\* valid_position without the wall test: every cell of the board is open.
valid_position_any_cell(state) ==
    Get(board, state.y * width + state.x) # <<>>

valid_position(state) ==
    LET target == Get(board, state.y * width + state.x)
    IN  IF target # <<>> THEN target[1] = 0 ELSE FALSE

can_exit(state) ==
    LET target == Get(exits, state.y * width + state.x)
    IN  IF target # <<>> THEN target[1] # <<>> ELSE FALSE

\* move_to with the guards of Down and Right reading height and width for
\* height - 1 and width - 1.
move_to_past_the_edge(state, direction) ==
    CASE direction = "Up" /\ state.y > 0 ->
            IF valid_position(State(state.x, state.y - 1))
            THEN State(state.x, state.y - 1) ELSE State(state.x, state.y)
      [] direction = "Down" /\ state.y < height ->
            IF valid_position(State(state.x, state.y + 1))
            THEN State(state.x, state.y + 1) ELSE State(state.x, state.y)
      [] direction = "Left" /\ state.x > 0 ->
            IF valid_position(State(state.x - 1, state.y))
            THEN State(state.x - 1, state.y) ELSE State(state.x, state.y)
      [] direction = "Right" /\ state.x < width ->
            IF valid_position(State(state.x + 1, state.y))
            THEN State(state.x + 1, state.y) ELSE State(state.x, state.y)
      [] OTHER -> State(state.x, state.y)

\* The guards of move_to's arms read height - 1 and width - 1 on usize; the
\* solvers call it only for cells of a world with width, height >= 1.
move_to(state, direction) ==
    CASE direction = "Up" /\ state.y > 0 ->
            IF valid_position(State(state.x, state.y - 1))
            THEN State(state.x, state.y - 1) ELSE State(state.x, state.y)
      [] direction = "Down" /\ state.y < height - 1 ->
            IF valid_position(State(state.x, state.y + 1))
            THEN State(state.x, state.y + 1) ELSE State(state.x, state.y)
      [] direction = "Left" /\ state.x > 0 ->
            IF valid_position(State(state.x - 1, state.y))
            THEN State(state.x - 1, state.y) ELSE State(state.x, state.y)
      [] direction = "Right" /\ state.x < width - 1 ->
            IF valid_position(State(state.x + 1, state.y))
            THEN State(state.x + 1, state.y) ELSE State(state.x, state.y)
      [] OTHER -> State(state.x, state.y)

\* get_moves with the arm of Right and Left taken for every direction.
get_moves_one_arm(direction) == <<direction, "Up", "Down">>

get_moves(direction) ==
    IF direction \in {"Up", "Down"}
    THEN <<direction, "Left", "Right">>
    ELSE <<direction, "Up", "Down">>

---------------------------------------------------------------------------
(* Transition and reward function.                                         *)

\* The Move arm of transition: `result` for the moves and the remainder.
move_entries(moves, n, remainder) ==
    << <<n, Move(moves[1])>>,
       <<remainder, Move(moves[2])>>,
       <<remainder, Move(moves[3])>> >>

\* Option<Vec<(f32, Action)>>: <<>> is None, <<vec>> is Some(vec).
transition(state, action, n) ==
    CASE action = Exit ->
            LET target == Get(exits, state.y * width + state.x)
            IN  IF target # <<>> /\ target[1] # <<>>
                THEN << << <<One, Exit>> >> >>
                ELSE <<>>
      [] action[1] = "Move" ->
            << move_entries(get_moves(action[2]), n, Div(Sub(One, n), 2)) >>
      [] OTHER -> <<>>

\* reward with the Exit arm returning 0.0 as the other arms do.
reward_always_zero(state, action) == Zero

reward(state, action) ==
    IF action = Exit
    THEN LET target == Get(exits, state.y * width + state.x)
         IN  IF target # <<>> /\ target[1] # <<>> THEN F32(target[1][1]) ELSE Zero
    ELSE Zero

\* The accumulation loop of value(): `accumulation += ...` for each Move
\* entry of the transition, in order, read from the value array passed in.
\* values[target.y * self.width + target.x]
value_at(vals, target) == vals[target.y * width + target.x + 1]

RECURSIVE accumulate(_, _, _, _, _, _)
accumulate(state, entries, k, d, vals, accumulation) ==
    IF k > Len(entries) THEN accumulation
    ELSE accumulate(state, entries, k + 1, d, vals,
            IF entries[k][2][1] = "Move"
            THEN Add(accumulation,
                     Mul(entries[k][1],
                         Add(reward(state, entries[k][2]),
                             Mul(d, value_at(vals, move_to(state, entries[k][2][2]))))))
            ELSE accumulation)

\* `if let Some(actions) = actions { .. }` around the accumulation loop.
accumulation_over(state, actions, d, vals) ==
    IF actions # <<>> THEN accumulate(state, actions[1], 1, d, vals, Zero)
    ELSE Zero

value(state, action, d, n, vals) ==
    CASE action = Exit -> reward(state, action)
      [] action[1] = "Move" ->
            accumulation_over(state, transition(state, action, n), d, vals)
      [] OTHER -> Zero

---------------------------------------------------------------------------
(* Bellman update engine.                                                  *)

\* The cell visited with index i by `for y in 0..height { for x in 0..width`.
CellState(i) == State(i % width, i \div width)

\* new_values with slot i for the direction whose enum value is i.
directional_values_by_enum_value(state, d, n, vals) ==
    Vec([i \in 1..4 |->
        value(state, Move(<<"Up", "Down", "Left", "Right">>[i]), d, n, vals)])

\* new_values[i] = value(state, Move(DIRECTIONS[i])) for the four directions.
directional_values(state, d, n, vals) ==
    Vec([i \in 1..4 |-> value(state, Move(DIRECTIONS[i]), d, n, vals)])

\* `if candidate > max { max = candidate }`
higher(max, candidate) == IF Less(max, candidate) THEN candidate ELSE max
\* `max = v[0]; for i in 1..4 { if v[i] > max { max = v[i] } }`
highest(v) == higher(higher(higher(v[1], v[2]), v[3]), v[4])

\* `target = 0; for i in 1..4 { if v[i] > v[target] { target = i } }`,
\* 0-based as in the code; better_or_equal is the step with >= for >.
better_or_equal(v, target, i) == IF ~Less(v[i + 1], v[target + 1]) THEN i ELSE target
better(v, target, i) == IF Less(v[target + 1], v[i + 1]) THEN i ELSE target
first_highest_slot_zero(v) == 0
first_highest(v) == better(v, better(v, better(v, 0, 1), 2), 3)

generate_policy(q) ==
    Vec([i \in 1..area |->
        LET state == CellState(i - 1)
        IN  IF ~valid_position(state) THEN None
            ELSE IF can_exit(state) THEN Exit
            ELSE Move(DIRECTIONS[first_highest(q[i]) + 1])])

generate_random_policy ==
    Vec([i \in 1..area |->
        LET state == CellState(i - 1)
        IN  IF ~valid_position(state) THEN None
            ELSE IF can_exit(state) THEN Exit
            ELSE Move("Up")])

\* `q_values[index] = new_values; result[index] = max;`
highest_of(new_values) == [value |-> highest(new_values), q |-> new_values]

\* value_bellman_update's cell without the valid_position test.
value_bellman_cell_no_wall_test(state, d, n, vals, old_q) ==
    IF can_exit(state) THEN [value |-> reward(state, Exit), q |-> old_q]
    ELSE highest_of(directional_values(state, d, n, vals))

\* One cell of value_bellman_update: its new value and its q_values entry.
value_bellman_cell(state, d, n, vals, old_q) ==
    IF ~valid_position(state) THEN [value |-> Zero, q |-> old_q]
    ELSE IF can_exit(state) THEN [value |-> reward(state, Exit), q |-> old_q]
    ELSE highest_of(directional_values(state, d, n, vals))

\* The loop of value_bellman_update from the cell with the given index on,
\* in the order `for y in 0..height { for x in 0..width`.  What it leaves:
\* `result`, q_values, and the array `values` that was passed in.
RECURSIVE value_bellman_cells(_, _, _, _, _, _)

\* The loop's writes with `values` updated in place of a fresh array.
cell_written_in_place(index, d, n, vals, result, q, cell) ==
    value_bellman_cells(index + 1, d, n,
                        [vals EXCEPT ![index + 1] = cell.value],
                        [result EXCEPT ![index + 1] = cell.value],
                        [q EXCEPT ![index + 1] = cell.q])

\* `result[index] = ..` and `q_values[index] = ..`, then the next cell.
cell_written(index, d, n, vals, result, q, cell) ==
    value_bellman_cells(index + 1, d, n, vals,
                        [result EXCEPT ![index + 1] = cell.value],
                        [q EXCEPT ![index + 1] = cell.q])

value_bellman_cells(index, d, n, vals, result, q) ==
    IF index >= area
    THEN [result |-> result, q_values |-> q, values |-> vals]
    ELSE cell_written(index, d, n, vals, result, q,
                      value_bellman_cell(CellState(index), d, n, vals, q[index + 1]))

\* value_bellman_update: `result = vec![0.0; values.len()]`, then the loop.
value_bellman_update(d, n, vals, q) ==
    value_bellman_cells(0, d, n, vals, [i \in 1..Len(vals) |-> Zero], q)

\* policy_bellman_update taking the best direction in place of the policy's.
policy_bellman_update_maximising(d, n, pol, vals) ==
    value_bellman_update(d, n, vals, [i \in 1..area |-> <<Zero, Zero, Zero, Zero>>]).result

policy_bellman_update(d, n, pol, vals) ==
    Vec([i \in 1..Len(vals) |->
        IF i <= area THEN value(CellState(i - 1), pol[i], d, n, vals) ELSE Zero])

\* `max_delta = f32::MIN; for delta in deltas { if delta > max_delta { .. } }`
RECURSIVE max_delta_from(_, _, _, _)
max_delta_from(temp, vals, i, max) ==
    IF i > Len(temp) THEN max
    ELSE max_delta_from(temp, vals, i + 1, higher(max, Sub(temp[i], vals[i])))

\* `max_delta = delta` without the comparison: the difference of the last
\* cell.
max_signed_delta_of_last_cell(temp, vals) ==
    IF Len(temp) = 0 THEN F32_MIN ELSE Sub(temp[Len(temp)], vals[Len(temp)])

max_signed_delta(temp, vals) == max_delta_from(temp, vals, 1, F32_MIN)

\* The stopping test without `iterations > 1`.
converged_any_sweep(delta, eps, iters) == Less(AbsF(delta), eps)

\* The stopping test of both convergence loops.
converged(delta, eps, iters) == Less(AbsF(delta), eps) /\ iters > 1

\* One cell of policy_improvement: its new action and its q_values entry.
\* `q_values[index] = new_values; Action::Move(DIRECTIONS[optimal])`
optimal_of(new_values) ==
    [action |-> Move(DIRECTIONS[first_highest(new_values) + 1]), q |-> new_values]

\* The Move arm of policy_improvement's match taken for every action.
improved_cell_any_action(state, action, d, n, vals, old_q) ==
    optimal_of(directional_values(state, d, n, vals))

improved_cell(state, action, d, n, vals, old_q) ==
    IF action[1] = "Move"
    THEN optimal_of(directional_values(state, d, n, vals))
    ELSE [action |-> action, q |-> old_q]

\* `stable` never set.
is_stable_never(result, pol) == FALSE

\* `stable`: true when the loop over 0..policy.len() reaches its last index
\* without meeting a changed entry.
is_stable(result, pol) ==
    Len(pol) > 0 /\ \A i \in 1..Len(pol) : result[i] = pol[i]

\* policy_improvement: (result, stable), and q_values as it leaves it.
\* What policy_improvement leaves: (result, stable), and q_values.
improved_arrays(result, pol, q) ==
    [result |-> result, stable |-> is_stable(result, pol), q_values |-> q]

\* The actions, and the q_values, of the cells of a sweep.
actions_of(cells) == Vec([i \in 1..Len(cells) |-> cells[i].action])
rows_of(cells) == Vec([i \in 1..Len(cells) |-> cells[i].q])
improved_cells(cells, pol) == improved_arrays(actions_of(cells), pol, rows_of(cells))

policy_improvement(d, n, pol, vals, q) ==
    improved_cells(Vec([i \in 1..area |->
                        improved_cell(CellState(i - 1), pol[i], d, n, vals, q[i])]),
                   pol)

---------------------------------------------------------------------------
(* The caller: setup, queries, and the two solvers.                        *)

\* (discount, noise, epsilon) the solvers are called with: (1/4, 1/2, 2^-14)
\* and, with no noise, (1/2, 1, 1/16).
Settings ==
    { << <<1, 2>>, <<1, 1>>, <<1, 14>> >>,
      << <<1, 1>>, <<1, 0>>, <<1, 4>> >> }

\* No call made yet, or none the caller remembers.
NoCall == [op |-> "none"]

zeros == [i \in 1..area |-> Zero]
zero_q == [i \in 1..area |-> <<Zero, Zero, Zero, Zero>>]

Init ==
    /\ width \in 0..MaxArea
    /\ height \in 0..MaxArea
    /\ width * height <= MaxArea
    /\ board = NewBoard(width, height)
    /\ exits = NewExits(width, height)
    /\ pc = "setup"
    /\ calls = 0
    /\ query = NoCall
    /\ discount = Zero /\ noise = Zero /\ epsilon = Zero
    /\ values = <<>> /\ q_values = <<>> /\ policy = <<>>
    /\ iterations = 0 /\ max_delta = F32_MIN
    /\ old_values = <<>>
    /\ rounds = 0
    /\ vi_values = <<>> /\ pi_values = <<>>

AddWall(x, y) ==
    /\ pc = "setup"
    /\ calls < MaxCalls
    /\ board' = add_wall_board(x, y)
    /\ calls' = calls + 1
    /\ query' = [op |-> "add_wall", x |-> x, y |-> y]
    /\ UNCHANGED <<width, height, exits, pc, solver, finals>>

AddExit(x, y, r) ==
    /\ pc = "setup"
    /\ calls < MaxCalls
    /\ exits' = add_exit_exits(x, y, r)
    /\ calls' = calls + 1
    /\ query' = [op |-> "add_exit", x |-> x, y |-> y]
    /\ UNCHANGED <<width, height, board, pc, solver, finals>>

\* The calls that change nothing of the World and leave their answer in
\* `query`.
Asked == {"query", "transition", "policy_improvement"}

\* The caller asks valid_position and can_exit of any state, and move_to of
\* a state inside the grid.  A query right after a query would only replace
\* the record of the first: it reaches no state that a single query does not.
Query(x, y, d) ==
    /\ pc = "setup"
    /\ query.op \notin Asked
    /\ query' = [op |-> "query", x |-> x, y |-> y, direction |-> d,
                 valid |-> valid_position(State(x, y)),
                 exit |-> can_exit(State(x, y)),
                 moved |-> IF x < width /\ y < height
                           THEN <<move_to(State(x, y), d)>> ELSE <<>>]
    /\ UNCHANGED <<world, pc, calls, solver, finals>>

StartValueIteration(s) ==
    /\ pc = "setup"
    /\ discount' = s[1] /\ noise' = s[2] /\ epsilon' = s[3]
    /\ values' = zeros
    /\ q_values' = zero_q
    /\ iterations' = 0
    /\ max_delta' = F32_MIN
    /\ old_values' = zeros
    /\ policy' = <<>>
    /\ rounds' = 0
    /\ pc' = "value_iteration"
    /\ query' = NoCall
    /\ calls' = MaxCalls
    /\ UNCHANGED <<world, finals>>

\* One pass of value_iteration's loop; the pass that meets the stopping
\* test leaves the loop and returns generate_policy(q_values).  A pass that
\* writes a number outside the range of the arithmetic ends the run at
\* "out_of_range".
ValueIterationTest(temp, delta) ==
    /\ iterations' = iterations + 1
    /\ max_delta' = delta
    /\ old_values' = temp.values
    /\ values' = temp.result
    /\ q_values' = temp.q_values
    /\ IF ~(AllRepresentable(temp.result) /\ AllRepresentableRows(temp.q_values))
       THEN pc' = "out_of_range" /\ UNCHANGED <<policy, vi_values>>
       ELSE IF converged(delta, epsilon, iterations + 1)
       THEN /\ pc' = "done"
            /\ policy' = generate_policy(temp.q_values)
            /\ vi_values' = <<temp.result>>
       ELSE UNCHANGED <<pc, policy, vi_values>>

ValueIterationPassOver(temp) ==
    ValueIterationTest(temp, max_signed_delta(temp.result, values))

ValueIterationSweep ==
    /\ pc = "value_iteration"
    /\ iterations < MaxIter
    /\ ValueIterationPassOver(value_bellman_update(discount, noise, values, q_values))
    /\ UNCHANGED <<world, calls, query, discount, noise, epsilon, rounds, pi_values>>

\* policy_iteration is called on the finished world, or after
\* value_iteration returned, on the same world with the same arguments.
StartPolicyIteration(s) ==
    /\ \/ pc = "setup"
       \/ pc = "done" /\ pi_values = <<>> /\ s = <<discount, noise, epsilon>>
    /\ discount' = s[1] /\ noise' = s[2] /\ epsilon' = s[3]
    /\ policy' = generate_random_policy
    /\ values' = zeros
    /\ q_values' = zero_q
    /\ iterations' = 0
    /\ max_delta' = F32_MIN
    /\ old_values' = zeros
    /\ rounds' = 0
    /\ pc' = "policy_evaluation"
    /\ query' = NoCall
    /\ calls' = MaxCalls
    /\ UNCHANGED <<world, finals>>

\* One pass of policy_evaluation's loop; the pass that meets the stopping
\* test returns the array to policy_iteration.
PolicyEvaluationTest(temp, delta) ==
    /\ iterations' = iterations + 1
    /\ max_delta' = delta
    /\ old_values' = values
    /\ values' = temp
    /\ pc' = IF ~AllRepresentable(temp) THEN "out_of_range"
             ELSE IF converged(delta, epsilon, iterations + 1)
             THEN "policy_improvement" ELSE pc

PolicyEvaluationPassOver(temp) ==
    PolicyEvaluationTest(temp, max_signed_delta(temp, values))

PolicyEvaluationSweep ==
    /\ pc = "policy_evaluation"
    /\ iterations < MaxIter
    /\ PolicyEvaluationPassOver(policy_bellman_update(discount, noise, policy, values))
    /\ UNCHANGED <<world, calls, query, discount, noise, epsilon,
                   q_values, policy, rounds, finals>>

\* policy_iteration after policy_evaluation returned: policy_improvement,
\* then break when stable, else the next round's policy_evaluation.
PolicyImprovementTest(r) ==
    /\ policy' = r.result
    /\ q_values' = r.q_values
    /\ rounds' = rounds + 1
    /\ IF ~AllRepresentableRows(r.q_values)
       THEN /\ pc' = "out_of_range"
            /\ UNCHANGED <<iterations, max_delta, pi_values>>
       ELSE IF r.stable
       THEN /\ pc' = "done"
            /\ pi_values' = <<values>>
            /\ UNCHANGED <<iterations, max_delta>>
       ELSE /\ pc' = "policy_evaluation"
            /\ iterations' = 0
            /\ max_delta' = F32_MIN
            /\ UNCHANGED pi_values

PolicyImprovement ==
    /\ pc = "policy_improvement"
    /\ rounds < MaxRounds
    /\ PolicyImprovementTest(policy_improvement(discount, noise, policy, values, q_values))
    /\ UNCHANGED <<world, calls, query, discount, noise, epsilon,
                   values, old_values, vi_values>>

Next ==
    \/ \E x \in 0..width, y \in 0..height : AddWall(x, y)
    \/ \E x \in 0..width, y \in 0..height, r \in Rewards : AddExit(x, y, r)
    \/ \E x \in 0..width, y \in 0..height, d \in Direction : Query(x, y, d)
    \/ \E s \in Settings : StartValueIteration(s)
    \/ ValueIterationSweep
    \/ \E s \in Settings : StartPolicyIteration(s)
    \/ PolicyEvaluationSweep
    \/ PolicyImprovement

Spec == Init /\ [][Next]_vars

\* A pass of a solver loop, told by the counter it raises.  With pc in a
\* loop the only step of Next is that loop's pass, which is enabled exactly
\* when its counter is below its bound and which raises the counter.
ValueIterationPass ==
    pc = "value_iteration" /\ iterations < MaxIter /\ iterations' = iterations + 1
PolicyEvaluationPass ==
    pc = "policy_evaluation" /\ iterations < MaxIter /\ iterations' = iterations + 1
PolicyImprovementPass ==
    pc = "policy_improvement" /\ rounds < MaxRounds /\ rounds' = rounds + 1

\* The solvers are loops of a single thread: a solver that was called keeps
\* running its loop.
FairSpec ==
    /\ Spec
    /\ WF_iterations(ValueIterationPass)
    /\ WF_iterations(PolicyEvaluationPass)
    /\ WF_rounds(PolicyImprovementPass)

---------------------------------------------------------------------------
(* The World's transition and reward functions, called from outside the    *)
(* solvers on the world the setup has built.                               *)

Actions == {None, Exit} \cup {Move(d) : d \in Direction}

\* The noise arguments the caller draws, both in (0, 1): 0.8 as f32 holds
\* it, and 13222867 / 2^25 (0.39406...).
Noises == { <<13421773, 24>>, <<13222867, 25>> }

\* The caller asks transition(state, action, noise) and, for the actions
\* whose value reads no value array, value(state, action, ..).
AskTransition(x, y, action, n) ==
    /\ pc = "setup"
    /\ query.op \notin Asked
    /\ query' = [op |-> "transition", x |-> x, y |-> y,
                 action |-> action, noise |-> n,
                 result |-> transition(State(x, y), action, n),
                 value |-> IF action[1] = "Move" THEN <<>>
                           ELSE <<value(State(x, y), action, One, n, zeros)>>]
    /\ UNCHANGED <<world, pc, calls, solver, finals>>

\* The caller calls policy_improvement itself, on the policy of
\* generate_random_policy and the arrays policy_iteration starts from, and
\* keeps the flag it returns and whether the policy it returns is the one
\* passed in.
ImprovementAnswer(r, pol) ==
    [op |-> "policy_improvement", stable |-> r.stable, same |-> r.result = pol]

AskPolicyImprovement(s) ==
    /\ pc = "setup"
    /\ query.op \notin Asked
    /\ query' = ImprovementAnswer(
                    policy_improvement(s[1], s[2], generate_random_policy, zeros, zero_q),
                    generate_random_policy)
    /\ UNCHANGED <<world, pc, calls, solver, finals>>

WorldNext ==
    \/ \E x \in 0..width, y \in 0..height : AddWall(x, y)
    \/ \E x \in 0..width, y \in 0..height, r \in Rewards : AddExit(x, y, r)
    \/ \E x \in 0..width, y \in 0..height, a \in Actions, n \in Noises :
            AskTransition(x, y, a, n)
    \/ \E s \in Settings : AskPolicyImprovement(s)

WorldSpec == Init /\ [][WorldNext]_vars

---------------------------------------------------------------------------
(* World::load.  A description is the sequence of the lines of the file.   *)
(* A line is [kind, data]: kind is what the line starts with ("#",         *)
(* "Dimension", "Wall", "Exit", or "" for anything else), data is None     *)
(* (<<>>) when the line has no second word, else Some of the second word   *)
(* split at the commas.  A piece is the sequence of its characters.        *)

MaxLines == 2

\* The decimal digits and their values.
digit_value(c) ==
    CASE c = "0" -> 0 [] c = "1" -> 1 [] c = "2" -> 2 [] c = "3" -> 3 [] c = "4" -> 4
      [] c = "5" -> 5 [] c = "6" -> 6 [] c = "7" -> 7 [] c = "8" -> 8 [] c = "9" -> 9
      [] OTHER -> -1

\* The number the characters from k on spell after n, None at a character
\* that is no digit.
RECURSIVE parse_digits(_, _, _)
parse_digits(piece, k, n) ==
    IF k > Len(piece) THEN <<n>>
    ELSE IF digit_value(piece[k]) < 0 THEN <<>>
    ELSE parse_digits(piece, k + 1, 10 * n + digit_value(piece[k]))

\* `.parse::<usize>()` as an Option: digits, after an optional "+".
parse_usize(piece) ==
    IF piece = <<>> THEN <<>>
    ELSE IF piece[1] = "+"
         THEN (IF Len(piece) = 1 THEN <<>> ELSE parse_digits(piece, 2, 0))
    ELSE parse_digits(piece, 1, 0)

\* `.parse::<f32>()` as an Option, for the whole numbers the descriptions
\* of the model write: digits, after an optional sign.
parse_f32(piece) ==
    IF piece = <<>> THEN <<>>
    ELSE IF piece[1] = "-"
         THEN (IF Len(piece) = 1 \/ parse_digits(piece, 2, 0) = <<>> THEN <<>>
               ELSE <<-parse_digits(piece, 2, 0)[1]>>)
    ELSE parse_usize(piece)

\* `values.get(i).ok_or(..).and_then(parse)` as an Option, for Some(values).
usize_field(data, i) ==
    IF Get(data[1], i) = <<>> THEN <<>> ELSE parse_usize(Get(data[1], i)[1])
f32_field(data, i) ==
    IF Get(data[1], i) = <<>> THEN <<>> ELSE parse_f32(Get(data[1], i)[1])

LoadError == [error |-> TRUE]

\* The body of `for line in lines` for one line, on what the lines before
\* left in width, height, walls and exits.
load_line(line, acc) ==
    CASE line.kind = "Dimension" ->
            IF /\ line.data # <<>>
               /\ usize_field(line.data, 0) # <<>>
               /\ usize_field(line.data, 1) # <<>>
            THEN [acc EXCEPT !.width = usize_field(line.data, 0)[1],
                             !.height = usize_field(line.data, 1)[1]]
            ELSE LoadError
      [] line.kind = "Wall" ->
            IF /\ line.data # <<>>
               /\ usize_field(line.data, 0) # <<>>
               /\ usize_field(line.data, 1) # <<>>
            THEN [acc EXCEPT !.walls = Append(@, <<usize_field(line.data, 0)[1],
                                                   usize_field(line.data, 1)[1]>>)]
            ELSE LoadError
      [] line.kind = "Exit" ->
            IF /\ line.data # <<>>
               /\ usize_field(line.data, 0) # <<>>
               /\ usize_field(line.data, 1) # <<>>
               /\ f32_field(line.data, 2) # <<>>
            THEN [acc EXCEPT !.exits = Append(@, <<usize_field(line.data, 0)[1],
                                                   usize_field(line.data, 1)[1],
                                                   f32_field(line.data, 2)[1]>>)]
            ELSE LoadError
      [] OTHER -> acc

RECURSIVE load_lines(_, _, _)
load_lines(lines, k, acc) ==
    IF acc.error \/ k > Len(lines) THEN acc
    ELSE load_lines(lines, k + 1, load_line(lines[k], acc))

\* `for wall in walls { world.add_wall(..) }`, `for exit in exits { .. }`
RECURSIVE walls_added(_, _, _, _)
walls_added(b, w, walls, k) ==
    IF k > Len(walls) THEN b
    ELSE walls_added(wall_added(b, w, walls[k][1], walls[k][2]), w, walls, k + 1)
RECURSIVE exits_added(_, _, _, _)
exits_added(ex, w, list, k) ==
    IF k > Len(list) THEN ex
    ELSE exits_added(exit_added(ex, w, list[k][1], list[k][2], list[k][3]), w, list, k + 1)

\* The end of load: the Err of the loop, or Ok(world).
loaded(acc) ==
    IF acc.error THEN LoadError
    ELSE [error |-> FALSE, width |-> acc.width, height |-> acc.height,
          board |-> walls_added(NewBoard(acc.width, acc.height), acc.width, acc.walls, 1),
          exits |-> exits_added(NewExits(acc.width, acc.height), acc.width, acc.exits, 1)]

load(lines) ==
    loaded(load_lines(lines, 1, [error |-> FALSE, width |-> 0, height |-> 0,
                                 walls |-> <<>>, exits |-> <<>>]))

\* The lines the descriptions are made of.
\* The lines the descriptions are made of: a first word alone, or followed
\* by "2", "x,2", "2,2", "1,0", "1,0,x" or "1,0,-1".
Datas ==
    { <<>>,
      << << <<"2">> >> >>,
      << << <<"x">>, <<"2">> >> >>,
      << << <<"2">>, <<"2">> >> >>,
      << << <<"1">>, <<"0">> >> >>,
      << << <<"1">>, <<"0">>, <<"x">> >> >>,
      << << <<"1">>, <<"0">>, <<"-", "1">> >> >> }
Lines == { [kind |-> k, data |-> d] : k \in {"Dimension", "Wall", "Exit"}, d \in Datas }
            \cup { [kind |-> "#", data |-> <<>>],
                   [kind |-> "", data |-> << << <<"2">>, <<"2">> >> >>] }
Descriptions == UNION { [1..n -> Lines] : n \in 0..MaxLines }

\* Before load returns: no World yet, the description in `query`.
LoadInit ==
    /\ width = 0 /\ height = 0
    /\ board = <<>> /\ exits = <<>>
    /\ pc = "load"
    /\ calls = 0
    /\ query \in { [op |-> "load", description |-> lines] : lines \in Descriptions }
    /\ discount = Zero /\ noise = Zero /\ epsilon = Zero
    /\ values = <<>> /\ q_values = <<>> /\ policy = <<>>
    /\ iterations = 0 /\ max_delta = F32_MIN
    /\ old_values = <<>>
    /\ rounds = 0
    /\ vi_values = <<>> /\ pi_values = <<>>

\* load returns: Ok(world), and the caller goes on to the setup, or Err.
Loaded(r) ==
    IF r.error
    THEN pc' = "load_error" /\ UNCHANGED world
    ELSE /\ pc' = "setup"
         /\ width' = r.width /\ height' = r.height
         /\ board' = r.board /\ exits' = r.exits

Load ==
    /\ pc = "load"
    /\ Loaded(load(query.description))
    /\ UNCHANGED <<calls, query, solver, finals>>

LoadNext == Load

LoadSpec == LoadInit /\ [][LoadNext]_vars

---------------------------------------------------------------------------
(* The default world of the exercise: 4 x 3, a wall at (1, 1), exits at    *)
(* (3, 0) with reward 1 and at (3, 1) with reward -1, solved by            *)
(* value_iteration with gamma 0.9 (or the gamma of the command line, 0.5   *)
(* here), the intended direction taken with 0.8, and epsilon 0.0001.       *)

DefaultExits == { <<3, 0, 1>>, <<3, 1, -1>> }

\* 0.9, 0.8 and 0.0001 as f32 holds them.
DefaultSetting == << <<7549747, 23>>, <<13421773, 24>>, <<13743895, 37>> >>
DefaultSettings == { DefaultSetting, << <<1, 1>>, <<13421773, 24>>, <<13743895, 37>> >> }

DefaultInit ==
    /\ width = 4 /\ height = 3
    /\ board = NewBoard(4, 3)
    /\ exits = NewExits(4, 3)
    /\ pc = "setup"
    /\ calls = 0
    /\ query = NoCall
    /\ discount = Zero /\ noise = Zero /\ epsilon = Zero
    /\ values = <<>> /\ q_values = <<>> /\ policy = <<>>
    /\ iterations = 0 /\ max_delta = F32_MIN
    /\ old_values = <<>>
    /\ rounds = 0
    /\ vi_values = <<>> /\ pi_values = <<>>

\* add_wall(1, 1), made once.
DefaultWall ==
    /\ pc = "setup"
    /\ board' = add_wall_board(1, 1)
    /\ board' # board
    /\ calls' = calls + 1
    /\ query' = [op |-> "add_wall", x |-> 1, y |-> 1]
    /\ UNCHANGED <<width, height, exits, pc, solver, finals>>

\* add_exit for an exit of the default world, made once.
DefaultExit(e) ==
    /\ pc = "setup"
    /\ exits' = add_exit_exits(e[1], e[2], e[3])
    /\ exits' # exits
    /\ calls' = calls + 1
    /\ query' = [op |-> "add_exit", x |-> e[1], y |-> e[2]]
    /\ UNCHANGED <<width, height, board, pc, solver, finals>>

\* Game::value_iteration of game.rs, the sweep written for this world only:
\* the exits and their rewards are fixed in can_exit and reward, the
\* outcomes are weighted 0.8, 0.1 and 0.1, and gamma is the discount.
\* 0.8 and 0.1 as f32 holds them.
Game_intended == <<13421773, 24>>
Game_misstep == <<13421773, 27>>

Game_is_valid(x, y) ==
    LET target == Get(board, y * width + x)
    IN  IF target # <<>> THEN target[1] = 0 ELSE FALSE

Game_can_exit(state) == state = State(3, 0) \/ state = State(3, 1)

\* reward(Action::Exit(state)); reward(Action::Move(_)) is 0.0.
Game_reward_exit(state) ==
    CASE state = State(3, 0) -> One
      [] state = State(3, 1) -> Neg(One)
      [] OTHER -> Zero

Game_move_to(state, direction) ==
    CASE direction = "Up" /\ state.y > 0 ->
            IF Game_is_valid(state.x, state.y - 1)
            THEN State(state.x, state.y - 1) ELSE State(state.x, state.y)
      [] direction = "Down" /\ state.y < height - 1 ->
            IF Game_is_valid(state.x, state.y + 1)
            THEN State(state.x, state.y + 1) ELSE State(state.x, state.y)
      [] direction = "Left" /\ state.x > 0 ->
            IF Game_is_valid(state.x - 1, state.y)
            THEN State(state.x - 1, state.y) ELSE State(state.x, state.y)
      [] direction = "Right" /\ state.x < width - 1 ->
            IF Game_is_valid(state.x + 1, state.y)
            THEN State(state.x + 1, state.y) ELSE State(state.x, state.y)
      [] OTHER -> State(state.x, state.y)

\* weight * (reward(Action::Move(&target)) + self.gamma * values[..])
Game_term(weight, gamma, vals, target) ==
    Mul(weight, Add(Zero, Mul(gamma, value_at(vals, target))))

\* 0.8 * (..target..) + 0.1 * (..misstep_a..) + 0.1 * (..misstep_b..)
Game_expected(state, gamma, vals, d, a, b) ==
    Add(Add(Game_term(Game_intended, gamma, vals, Game_move_to(state, d)),
            Game_term(Game_misstep, gamma, vals, Game_move_to(state, a))),
        Game_term(Game_misstep, gamma, vals, Game_move_to(state, b)))

\* new_values[0..4]: Up, Right, Down, Left, each with its two missteps in
\* the order the code names them.
Game_new_values(state, gamma, vals) ==
    << Game_expected(state, gamma, vals, "Up", "Left", "Right"),
       Game_expected(state, gamma, vals, "Right", "Up", "Down"),
       Game_expected(state, gamma, vals, "Down", "Right", "Left"),
       Game_expected(state, gamma, vals, "Left", "Down", "Up") >>

Game_value_cell(state, gamma, vals, old_q) ==
    IF ~Game_is_valid(state.x, state.y) THEN [value |-> Zero, q |-> old_q]
    ELSE IF Game_can_exit(state) THEN [value |-> Game_reward_exit(state), q |-> old_q]
    ELSE highest_of(Game_new_values(state, gamma, vals))

\* Game::value_iteration: `result`, and self.world.q_values as it leaves it.
Game_cells_written(cells, vals, q) ==
    [result |-> [i \in 1..Len(vals) |-> IF i <= area THEN cells[i].value ELSE Zero],
     q_values |-> [i \in 1..Len(q) |-> IF i <= area THEN cells[i].q ELSE q[i]]]

Game_value_iteration(gamma, vals, q) ==
    Game_cells_written([i \in 1..area |->
                            Game_value_cell(CellState(i - 1), gamma, vals, q[i])],
                       vals, q)

DefaultNext ==
    \/ DefaultWall
    \/ \E e \in DefaultExits : DefaultExit(e)
    \/ \E s \in DefaultSettings : StartValueIteration(s)
    \/ ValueIterationSweep

DefaultSpec == DefaultInit /\ [][DefaultNext]_vars

---------------------------------------------------------------------------
(* Undiscounted runs: both solvers with discount 1.0, on worlds whose exit *)
(* rewards are not powers of two.                                          *)

\* Exit rewards the setup of an undiscounted run draws.
WholeRewards == {-3, 7}

\* (discount, noise, epsilon) of an undiscounted run: (1.0, 0.95, 2^-30) and
\* (1.0, 0.4, 2^-30), noise as f32 holds it.
UndiscountedSettings ==
    { << One, <<15938355, 24>>, <<1, 30>> >>,
      << One, <<13421773, 25>>, <<1, 30>> >> }

UndiscountedNext ==
    \/ \E x \in 0..width, y \in 0..height : AddWall(x, y)
    \/ \E x \in 0..width, y \in 0..height, r \in WholeRewards : AddExit(x, y, r)
    \/ \E s \in UndiscountedSettings : StartValueIteration(s)
    \/ ValueIterationSweep
    \/ \E s \in UndiscountedSettings : StartPolicyIteration(s)
    \/ PolicyEvaluationSweep
    \/ PolicyImprovement

UndiscountedSpec == Init /\ [][UndiscountedNext]_vars

---------------------------------------------------------------------------
(* Properties.                                                             *)

\* value_iteration has returned; policy_iteration has returned.
ViReturned == pc = "done" /\ rounds = 0
PiReturned == pc = "done" /\ rounds >= 1

\* At least one Bellman sweep of the running solver has written `values`.
Swept == iterations >= 1 \/ rounds >= 1

\* A solver loop is between two sweeps.
InLoop == pc \in {"value_iteration", "policy_evaluation"}

\* C1, as stated: after every sweep of either solver, every cell that has an
\* exit reward holds exactly that reward, and the policy, once there is
\* one, is Exit for it.
C1_ExitCellsHoldReward ==
    Swept => \A i \in 1..area :
        exits[i] # <<>> =>
            /\ values[i] = F32(exits[i][1])
            /\ policy # <<>> => policy[i] = Exit

\* C1, amended: after every sweep of either solver, every cell that has an
\* exit reward and is not a wall holds exactly that reward, and the policy,
\* once there is one, is Exit for it.
C1_OpenExitCellsHoldReward ==
    Swept => \A i \in 1..area :
        (exits[i] # <<>> /\ board[i] = 0) =>
            /\ values[i] = F32(exits[i][1])
            /\ policy # <<>> => policy[i] = Exit

\* Both solvers have returned on a world with an open exit cell, which the
\* policy leaves by Exit, next to a cell whose value derives from it.
C1_Witness ==
    /\ PiReturned /\ vi_values # <<>>
    /\ \E i \in 1..area : exits[i] # <<>> /\ board[i] = 0 /\ policy[i] = Exit
    /\ \E j \in 1..area : exits[j] = <<>> /\ values[j] # Zero

\* C2: from the start of either solver on, every wall cell has value 0, and
\* the policy, once there is one, is None for it.
C2_WallCellsZeroAndNone ==
    pc # "setup" => \A i \in 1..area :
        board[i] = 1 =>
            /\ values[i] = Zero
            /\ policy # <<>> => policy[i] = None

\* Both solvers have returned on a world with a wall, with some cell's value
\* not 0.
C2_Witness ==
    /\ PiReturned /\ vi_values # <<>>
    /\ \E i \in 1..area : board[i] = 1 /\ policy[i] = None
    /\ \E j \in 1..area : values[j] # Zero

\* C3: when value_iteration stops, its last sweep changed no cell's value by
\* epsilon or more in absolute value.
C3_StopsWithEveryCellWithinEpsilon ==
    ViReturned => \A i \in 1..area :
        Less(AbsF(Sub(values[i], old_values[i])), epsilon)

\* The largest signed change the last sweep made to a cell, computed from
\* the two arrays.
SignedMax ==
    LET deltas == {Sub(values[i], old_values[i]) : i \in 1..area}
    IN  CHOOSE d \in deltas : \A other \in deltas : ~Less(d, other)

\* C4: value_iteration and policy_evaluation stop exactly at the first sweep
\* n >= 2 whose largest signed change is below epsilon in absolute value: a
\* loop still running after sweep n >= 2 did not meet the test at n, a loop
\* that stopped did so at a sweep n >= 2 that met it, and with no cell there
\* is no such sweep.
C4_StopsAtFirstSweepBelowEpsilon ==
    /\ (area > 0 /\ InLoop /\ iterations >= 2) =>
            ~Less(AbsF(SignedMax), epsilon)
    /\ (area > 0 /\ (ViReturned \/ pc = "policy_improvement")) =>
            iterations >= 2 /\ Less(AbsF(SignedMax), epsilon)
    /\ area = 0 => pc \notin {"done", "policy_improvement"}

\* value_iteration went on after a sweep n >= 2 and stopped at a later one.
C4_Witness == ViReturned /\ area > 0 /\ iterations >= 3

\* C5: value_iteration's loop eventually meets its stopping test.  A sweep
\* n >= 2 that leaves the loop running and the value array as it was is
\* repeated by every later sweep, so a run that returns passes through none.
C5_ValueIterationReturns ==
    ~(pc = "value_iteration" /\ iterations >= 2 /\ values = old_values)

\* C6: on a world with at least one cell, policy_iteration, once called,
\* eventually returns.
C6_PolicyIterationReturns ==
    (pc = "policy_evaluation" /\ width >= 1 /\ height >= 1) ~> PiReturned

\* policy_iteration returned after a round that changed the policy.
C6_Witness == PiReturned /\ area > 0 /\ rounds >= 2

\* floor(2^k / q), for k up to 33.
PowerOver(k, q) ==
    IF k <= 30 THEN 2^k \div q
    ELSE 2^(k - 30) * (2^30 \div q) + (2^(k - 30) * (2^30 % q)) \div q

\* a <= 10^-n, for a >= 0 and n up to 4.
AtMostDecimal(a, n) ==
    IF a[1] = 0 THEN TRUE
    ELSE IF a[2] < n THEN FALSE
    ELSE IF a[2] - n > 33 THEN TRUE
    ELSE a[1] <= PowerOver(a[2] - n, 5^n)

\* C7: with epsilon <= 1e-4, the value arrays at which value_iteration and
\* policy_iteration stop on the same world and arguments agree within 1e-3
\* in every cell.
C7_SolversAgree ==
    (vi_values # <<>> /\ pi_values # <<>> /\ AtMostDecimal(epsilon, 4)) =>
        \A i \in 1..area :
            AtMostDecimal(AbsF(Sub(vi_values[1][i], pi_values[1][i])), 3)

\* The cell next to (x, y) in direction d, as integer coordinates.
Adjacent(x, y, d) ==
    CASE d = "Up" -> [x |-> x, y |-> y - 1]
      [] d = "Down" -> [x |-> x, y |-> y + 1]
      [] d = "Left" -> [x |-> x - 1, y |-> y]
      [] d = "Right" -> [x |-> x + 1, y |-> y]

\* C8: move_to(s, d) for s inside the grid returns the cell next to s in
\* direction d when that cell is inside the grid and not a wall, and s
\* otherwise.
C8_MoveToAdjacentOrStay ==
    (query.op = "query" /\ query.moved # <<>>) =>
        LET t == Adjacent(query.x, query.y, query.direction)
            open == /\ 0 <= t.x /\ t.x < width
                    /\ 0 <= t.y /\ t.y < height
                    /\ board[t.y * width + t.x + 1] = 0
        IN  query.moved[1] = IF open THEN t ELSE State(query.x, query.y)

\* move_to was asked on a world with a wall and returned another cell.
C8_Witness ==
    /\ query.op = "query" /\ query.moved # <<>>
    /\ query.moved[1] # State(query.x, query.y)
    /\ \E i \in 1..area : board[i] = 1

\* C9: a call add_wall(x, y) or add_exit(x, y, reward) with x >= width or
\* y >= height leaves board and exits as they were.
C9_OutOfBoundsCallsChangeNothing ==
    [][(/\ query'.op \in {"add_wall", "add_exit"}
        /\ calls' = calls + 1
        /\ (query'.x >= width \/ query'.y >= height))
       => (board' = board /\ exits' = exits)]_vars

\* C10: valid_position(state) is true exactly when state is inside the grid
\* and its cell is not a wall; valid_position and can_exit are false for
\* every state with x >= width or y >= height.
C10_ValidPositionInBoundsOnly ==
    query.op = "query" =>
        /\ query.valid <=> (/\ query.x < width /\ query.y < height
                            /\ board[query.y * width + query.x + 1] = 0)
        /\ (query.x >= width \/ query.y >= height) =>
                (~query.valid /\ ~query.exit)

\* The probabilities of the entries of a transition, added up in f32 in the
\* order of the entries.
RECURSIVE ProbabilitySum(_, _, _)
ProbabilitySum(entries, k, sum) ==
    IF k > Len(entries) THEN sum
    ELSE ProbabilitySum(entries, k + 1, Add(sum, entries[k][1]))

Orthogonal(d) == IF d \in {"Up", "Down"} THEN {"Left", "Right"} ELSE {"Up", "Down"}
Opposite(d) ==
    CASE d = "Up" -> "Down" [] d = "Down" -> "Up"
      [] d = "Left" -> "Right" [] d = "Right" -> "Left"

\* transition was asked for a Move.
MoveAsked == query.op = "transition" /\ query.action[1] = "Move"

\* transition(state, Move(d), noise) is Some of three entries: (noise,
\* Move(d)), then ((1 - noise) / 2, Move(o)) for the two directions o
\* orthogonal to d, and never the direction opposite to d.
ThreeEntries ==
    /\ query.result # <<>>
    /\ Len(query.result[1]) = 3
    /\ query.result[1][1] = <<query.noise, query.action>>
    /\ \A k \in 2..3 :
            /\ query.result[1][k][1] = Div(Sub(One, query.noise), 2)
            /\ query.result[1][k][2][1] = "Move"
            /\ query.result[1][k][2][2] \in Orthogonal(query.action[2])
    /\ query.result[1][2][2] # query.result[1][3][2]
    /\ \A k \in 1..3 : query.result[1][k][2] # Move(Opposite(query.action[2]))

\* The f32 next below 1.
BelowOne == <<2^MANTISSA_DIGITS - 1, MANTISSA_DIGITS>>

\* C11, as stated: for noise in (0, 1), transition(state, Move(d), noise)
\* returns the three entries of d and its two orthogonal directions, never
\* the opposite direction, and the three probabilities sum to 1.
C11_ThreeEntriesSummingToOne ==
    MoveAsked =>
        ThreeEntries /\ ProbabilitySum(query.result[1], 1, Zero) = One

\* C11, amended: for noise in (0, 1), transition(state, Move(d), noise)
\* returns the three entries of d and its two orthogonal directions, never
\* the opposite direction, and the three probabilities sum in f32 to 1 or
\* to the f32 next below 1.
C11_ThreeEntriesSummingToOneRounded ==
    MoveAsked =>
        ThreeEntries /\ ProbabilitySum(query.result[1], 1, Zero) \in {One, BelowOne}

\* transition was asked for Move(Up) with a noise whose three probabilities
\* sum to the f32 next below 1.
C11_Witness ==
    /\ MoveAsked /\ query.action = Move("Up")
    /\ query.result # <<>>
    /\ ProbabilitySum(query.result[1], 1, Zero) = BelowOne

\* The state asked about is a cell of the grid that has an exit reward.
AskedCellHasExit ==
    /\ query.x < width /\ query.y < height
    /\ exits[query.y * width + query.x + 1] # <<>>

\* C12: transition(state, Exit, noise) is Some([(1.0, Exit)]) exactly when
\* the state is a cell with an exit reward and None otherwise;
\* transition(state, None, noise) is None; value(state, Exit) from a state
\* that is not such a cell, and value(state, None), are 0.
C12_ExitOnlyFromExitCells ==
    query.op = "transition" =>
        /\ query.action = Exit =>
                query.result = IF AskedCellHasExit
                               THEN << << <<One, Exit>> >> >> ELSE <<>>
        /\ query.action = None => query.result = <<>>
        /\ (query.action = Exit /\ ~AskedCellHasExit) => query.value = <<Zero>>
        /\ query.action = None => query.value = <<Zero>>

\* C13: a sweep of value_bellman_update leaves the array it was passed as it
\* was, and the new value of every cell is the cell's update computed from
\* that array alone, whatever the cells visited before it were given.
C13_SweepReadsPreviousArrayOnly ==
    [][(pc = "value_iteration" /\ iterations' = iterations + 1) =>
        /\ old_values' = values
        /\ \A i \in 1..area :
              values'[i] = value_bellman_cell(CellState(i - 1), discount, noise,
                                              values, q_values[i]).value]_vars

\* A sweep of value iteration has read an array in which some cell was not
\* 0 and has given a cell that is not an exit a new value.
C13_Witness ==
    /\ pc = "value_iteration" /\ iterations >= 2
    /\ \E i \in 1..area : old_values[i] # Zero
    /\ \E i \in 1..area : exits[i] = <<>> /\ values[i] # old_values[i]

\* The cell with index i (1-based) is open and has no exit reward.
OpenNonExit(i) == board[i] = 0 /\ exits[i] = <<>>

\* The value, in the array vals, of the cell an agent at cell i ends in when
\* the outcome is a move in direction d: the adjacent cell when it is inside
\* the grid and open, else cell i.
OutcomeValue(i, d, vals) ==
    LET x == (i - 1) % width
        y == (i - 1) \div width
        t == Adjacent(x, y, d)
        open == /\ 0 <= t.x /\ t.x < width
                /\ 0 <= t.y /\ t.y < height
                /\ board[t.y * width + t.x + 1] = 0
    IN  IF open THEN vals[t.y * width + t.x + 1] ELSE vals[i]

\* The two directions orthogonal to d, in the order the outcomes are listed.
Sideways(d) == IF d \in {"Up", "Down"} THEN <<"Left", "Right">> ELSE <<"Up", "Down">>

\* The expectation of discount * value over the three outcomes of Move(d)
\* from cell i: the intended direction with probability noise, each
\* orthogonal direction with (1 - noise) / 2, added up in f32.
ExpectedQ(i, d, vals) ==
    LET side == Div(Sub(One, noise), 2)
    IN  Add(Add(Mul(noise, Mul(discount, OutcomeValue(i, d, vals))),
                Mul(side, Mul(discount, OutcomeValue(i, Sideways(d)[1], vals)))),
            Mul(side, Mul(discount, OutcomeValue(i, Sideways(d)[2], vals))))

\* The direction of each Q-value slot.
SlotDirection == <<"Up", "Right", "Down", "Left">>

\* Row of Q-values q is the four expectations of cell i under vals, slot by
\* slot.
RowIsExpectation(q, i, vals) ==
    \A k \in 1..4 : q[k] = ExpectedQ(i, SlotDirection[k], vals)

\* v is the greatest of the four numbers of q.
IsMaximum(v, q) ==
    /\ \E k \in 1..4 : q[k] = v
    /\ \A k \in 1..4 : ~Less(v, q[k])

\* C14: after a sweep of value_bellman_update, every open non-exit cell has
\* in slot k of its Q-values the expectation of discount * value over the
\* outcomes of Move(SlotDirection[k]) under the array the sweep read, and
\* its new value is the maximum of the four; policy_improvement writes the
\* Q-values of those cells with the same meaning of the slots.
C14_QValuesAreExpectations ==
    /\ ((pc = "value_iteration" \/ ViReturned) /\ iterations >= 1) =>
            \A i \in 1..area : OpenNonExit(i) =>
                /\ RowIsExpectation(q_values[i], i, old_values)
                /\ IsMaximum(values[i], q_values[i])
    /\ (PiReturned \/ (pc = "policy_evaluation" /\ rounds >= 1 /\ iterations = 0)) =>
            \A i \in 1..area : OpenNonExit(i) =>
                RowIsExpectation(q_values[i], i, values)

\* A sweep of value iteration left an open non-exit cell with four Q-values
\* that are not all equal.
C14_Witness ==
    /\ pc = "value_iteration" /\ iterations >= 2
    /\ \E i \in 1..area :
            /\ OpenNonExit(i)
            /\ q_values[i][2] # q_values[i][4]
            /\ q_values[i][1] # q_values[i][3]

\* Slot k is the first slot of row q that holds the greatest number of q.
FirstMaximalSlot(k, q) ==
    /\ \A j \in 1..4 : ~Less(q[k], q[j])
    /\ \A j \in 1..(k - 1) : Less(q[j], q[k])

\* C15: the policy value_iteration returns gives every open non-exit cell
\* Move(d) for the first direction d, in the order Up, Right, Down, Left,
\* whose Q-value of the last sweep is maximal; that Q-value is the cell's
\* final value, and a cell whose four Q-values are equal gets Move(Up).
C15_PolicyIsFirstMaximalDirection ==
    ViReturned => \A i \in 1..area : OpenNonExit(i) =>
        /\ \E k \in 1..4 :
                /\ policy[i] = Move(SlotDirection[k])
                /\ FirstMaximalSlot(k, q_values[i])
                /\ q_values[i][k] = values[i]
        /\ (\A k \in 2..4 : q_values[i][k] = q_values[i][1]) => policy[i] = Move("Up")

\* value_iteration returned a policy that sends an open non-exit cell in a
\* direction other than Up although a later direction has the same, maximal,
\* Q-value.
C15_Witness ==
    /\ ViReturned
    /\ \E i \in 1..area, k \in 2..3 :
            /\ OpenNonExit(i)
            /\ policy[i] = Move(SlotDirection[k])
            /\ \E j \in (k + 1)..4 : q_values[i][j] = q_values[i][k]

\* The world is the default world, complete, and the solver runs or ran
\* with gamma 0.9, noise 0.8 and epsilon 0.0001.
DefaultRun ==
    /\ width = 4 /\ height = 3
    /\ board = [NewBoard(4, 3) EXCEPT ![1 * 4 + 1 + 1] = 1]
    /\ exits = [NewExits(4, 3) EXCEPT ![0 * 4 + 3 + 1] = <<1>>,
                                      ![1 * 4 + 3 + 1] = <<-1>>]
    /\ <<discount, noise, epsilon>> = DefaultSetting

\* C16: on the default world with discount 0.9, noise 0.8 and epsilon 1e-4,
\* value_iteration returns (its loop stops before MaxIter sweeps), with
\* policy Move(Right) at (2, 0), value 1 at (3, 0), value -1 at (3, 1) and
\* value 0 at (1, 1).
C16_DefaultWorldSolved ==
    /\ (DefaultRun /\ pc = "value_iteration") => iterations < MaxIter
    /\ (DefaultRun /\ pc # "setup") => pc \in {"value_iteration", "done"}
    /\ (DefaultRun /\ ViReturned) =>
            /\ policy[0 * 4 + 2 + 1] = Move("Right")
            /\ values[0 * 4 + 3 + 1] = One
            /\ values[1 * 4 + 3 + 1] = Neg(One)
            /\ values[1 * 4 + 1 + 1] = Zero

\* value_iteration has returned on the default world.
C16_Witness == DefaultRun /\ ViReturned /\ iterations > 2

\* policy_iteration is running or has returned.
InPolicyIteration ==
    pc \in {"policy_evaluation", "policy_improvement"} \/ PiReturned

\* C17, as stated: throughout policy_iteration the policy is Exit on every
\* cell with an exit reward, None on every wall cell and a Move on every
\* other cell, Move(Up) until the first policy_improvement.
C17_PolicyKeepsShape ==
    InPolicyIteration => \A i \in 1..area :
        /\ exits[i] # <<>> => policy[i] = Exit
        /\ board[i] = 1 => policy[i] = None
        /\ (exits[i] = <<>> /\ board[i] = 0) =>
                /\ policy[i][1] = "Move"
                /\ rounds = 0 => policy[i] = Move("Up")

\* C17, amended: throughout policy_iteration the policy is None on every
\* wall cell, Exit on every open cell with an exit reward and a Move on
\* every other cell, Move(Up) until the first policy_improvement.
C17_PolicyKeepsShapeWallsFirst ==
    InPolicyIteration => \A i \in 1..area :
        /\ board[i] = 1 => policy[i] = None
        /\ (exits[i] # <<>> /\ board[i] = 0) => policy[i] = Exit
        /\ (exits[i] = <<>> /\ board[i] = 0) =>
                /\ policy[i][1] = "Move"
                /\ rounds = 0 => policy[i] = Move("Up")

\* policy_iteration returned, after a round that changed the policy, on a
\* world with a wall, an exit and a cell whose Move is no longer Up.
C17_Witness ==
    /\ PiReturned /\ rounds >= 2
    /\ \E i \in 1..area : policy[i] = None
    /\ \E i \in 1..area : policy[i] = Exit
    /\ \E i \in 1..area : policy[i][1] = "Move" /\ policy[i] # Move("Up")

\* C18: policy_improvement reports the policy as stable exactly when the
\* policy it returns equals the policy passed in at every cell.
C18_StableExactlyWhenUnchanged ==
    query.op = "policy_improvement" => (query.stable <=> query.same)

\* The pieces of the descriptions that spell a usize, and an f32.
Unsigned == { <<"0">>, <<"1">>, <<"2">> }
Signed == Unsigned \cup { <<"-", "1">> }

\* A Dimension, Wall or Exit line with a field missing or unparseable: two
\* usize fields, and for Exit an f32 reward after them.
Malformed(line) ==
    /\ line.kind \in {"Dimension", "Wall", "Exit"}
    /\ \/ line.data = <<>>
       \/ Len(line.data[1]) < (IF line.kind = "Exit" THEN 3 ELSE 2)
       \/ line.data[1][1] \notin Unsigned
       \/ line.data[1][2] \notin Unsigned
       \/ line.kind = "Exit" /\ line.data[1][3] \notin Signed

NoDimension(lines) == \A k \in 1..Len(lines) : lines[k].kind # "Dimension"

\* C19: load returns an error, and no world, when the description has no
\* Dimension line or has a malformed Dimension, Wall or Exit line.
C19_LoadRejectsBadDescriptions ==
    (query.op = "load" /\ pc # "load") =>
        ((\/ NoDimension(query.description)
          \/ \E k \in 1..Len(query.description) : Malformed(query.description[k]))
         => (pc = "load_error" /\ board = <<>> /\ exits = <<>>))

\* The value of taking the policy's action at cell i under the array vals:
\* the exit reward for Exit, 0 for None, the expectation over the three
\* outcomes for a Move.
ValueUnderPolicy(i, vals) ==
    CASE policy[i] = Exit -> F32(exits[i][1])
      [] policy[i] = None -> Zero
      [] OTHER -> ExpectedQ(i, policy[i][2], vals)

\* C20: a sweep of policy_bellman_update under the fixed policy gives every
\* cell the value of the policy's action computed from the array the sweep
\* was passed, which it leaves as it was; a Q-value it leaves changed is
\* the slot of the policy's direction at an open non-exit cell, every other
\* slot is as before.
C20_ExpectationSweepFollowsPolicy ==
    [][(pc = "policy_evaluation" /\ iterations' = iterations + 1) =>
        /\ old_values' = values
        /\ \A i \in 1..area : values'[i] = ValueUnderPolicy(i, values)
        /\ \A i \in 1..area, k \in 1..4 :
              q_values'[i][k] # q_values[i][k] =>
                  (OpenNonExit(i) /\ policy[i] = Move(SlotDirection[k]))]_vars

\* A sweep of policy evaluation, in a round after the first improvement,
\* gave an open non-exit cell whose policy is no longer Move(Up) a value
\* that is not 0, the Q-values being those of the improvement.
C20_Witness ==
    /\ pc = "policy_evaluation" /\ rounds >= 1 /\ iterations >= 2
    /\ \E i \in 1..area :
            /\ OpenNonExit(i)
            /\ policy[i] # Move("Up")
            /\ values[i] # Zero
            /\ q_values[i] # <<Zero, Zero, Zero, Zero>>

\* The default world, complete.
DefaultWorld ==
    /\ width = 4 /\ height = 3
    /\ board = [NewBoard(4, 3) EXCEPT ![1 * 4 + 1 + 1] = 1]
    /\ exits = [NewExits(4, 3) EXCEPT ![0 * 4 + 3 + 1] = <<1>>,
                                      ![1 * 4 + 3 + 1] = <<-1>>]

\* What Game::value_iteration returns and leaves in its Q-values is what the
\* sweep of the World left.
GameSweepAgrees(game) ==
    game.result = values /\ game.q_values = q_values

\* C21: on the default world with noise 0.8, the sweep Game::value_iteration
\* and value_bellman_update give, from the same value array, the same new
\* value to every cell and the same four Q-values in the same slots.
C21_GameSweepIsWorldSweep ==
    (DefaultWorld /\ noise = Game_intended /\ pc \in {"value_iteration", "done"}
        /\ iterations >= 1) =>
        GameSweepAgrees(Game_value_iteration(discount, old_values, q_values))

\* The solvers' arrays, where they exist, have one entry per cell.
ArraysCoverTheGrid ==
    /\ Len(board) = area /\ Len(exits) = area
    /\ pc # "setup" =>
            /\ Len(values) = area /\ Len(old_values) = area
            /\ Len(q_values) = area
            /\ policy # <<>> => Len(policy) = area

\* C22: in a world with width >= 1 and height >= 1, move_to(s, d) of every
\* state s inside the grid and every direction d is inside the grid, so
\* the index target.y * width + target.x that value() reads is below
\* width * height, the length of every array of the solvers, before and
\* after every sweep.
C22_SolverAccessesInBounds ==
    (width >= 1 /\ height >= 1) =>
        /\ ArraysCoverTheGrid
        /\ \A x \in 0..(width - 1), y \in 0..(height - 1), d \in Direction :
              /\ move_to(State(x, y), d).x < width
              /\ move_to(State(x, y), d).y < height
              /\ move_to(State(x, y), d).y * width + move_to(State(x, y), d).x
                    < width * height

\* policy_iteration is past its first improvement on a world of at least
\* 2 x 2 cells with a wall.
C22_Witness ==
    /\ pc = "policy_evaluation" /\ rounds >= 1 /\ iterations >= 1
    /\ width >= 2 /\ height >= 2
    /\ \E i \in 1..area : board[i] = 1

\* value_iteration has made a sweep that wrote numbers of the arithmetic.
AfterValueSweep ==
    (pc = "value_iteration" \/ ViReturned) /\ iterations >= 1

\* No exit reward is negative, discount >= 0 and 0 <= noise <= 1.
NonNegativeWorld ==
    /\ \A i \in 1..Len(exits) : exits[i] # <<>> => exits[i][1] >= 0
    /\ ~Less(discount, Zero)
    /\ ~Less(noise, Zero) /\ ~Less(One, noise)

\* No cell's value is lower than before the last sweep.
NonDecreasing == \A i \in 1..Len(values) : ~Less(values[i], old_values[i])

\* |new - old| of cell i over the last sweep.
AbsoluteDifference(i) == AbsF(Sub(values[i], old_values[i]))

\* d is the largest absolute difference of a cell: some cell changed by d,
\* none by more.
IsLargestAbsoluteDifference(d) ==
    /\ \E i \in 1..Len(values) : AbsoluteDifference(i) = d
    /\ \A i \in 1..Len(values) : ~Less(d, AbsoluteDifference(i))

RewardsAndZero ==
    {0} \cup { exits[i][1] : i \in { j \in 1..Len(exits) : exits[j] # <<>> } }

\* min(0, smallest exit reward) and max(0, largest exit reward).
LowestReward == CHOOSE m \in RewardsAndZero : \A r \in RewardsAndZero : m <= r
HighestReward == CHOOSE m \in RewardsAndZero : \A r \in RewardsAndZero : r <= m

WithinRewards(v) ==
    ~Less(v, F32(LowestReward)) /\ ~Less(F32(HighestReward), v)

\* A sweep of value iteration or of policy evaluation has been made.
AfterSweep ==
    /\ pc \in {"value_iteration", "policy_evaluation", "policy_improvement", "done"}
    /\ Swept

\* C24: for 0 <= discount <= 1 and 0 <= noise <= 1, after any number of
\* sweeps of value iteration or policy evaluation every cell value and every
\* Q-value lies between min(0, smallest exit reward) and
\* max(0, largest exit reward).
C24_ValuesWithinRewards ==
    (AfterSweep /\ ~Less(discount, Zero) /\ ~Less(One, discount)
        /\ ~Less(noise, Zero) /\ ~Less(One, noise)) =>
        /\ \A i \in 1..Len(values) : WithinRewards(values[i])
        /\ \A i \in 1..Len(q_values) : \A k \in 1..4 : WithinRewards(q_values[i][k])

=============================================================================
